---- MODULE Spec2Model ----
(***************************************************************************)
(* A model of vampire/tcr_vae.py: the TCRVAE facade (construction from a   *)
(* hyperparameter dictionary, get_data, fit, evaluate, encode, decode,     *)
(* generate, log_p_of_x_importance_sample) and the command line commands   *)
(* train_tcr, loss, importance and generate built on it.                   *)
(*                                                                         *)
(* Numbers.  The program computes with real numbers (logs of               *)
(* probabilities, normal log densities).  The model computes with them     *)
(* exactly, as values  r/8 + sum_p l[p]*ln(p) + c*(ln(2*pi)/2)  (a LogVal),*)
(* plus -inf, +inf and nan for numpy's log(0) and what follows from it.    *)
(* Probabilities are numerators over ProbDenom, standard deviations are    *)
(* 1 or 2, and noise is drawn from EpsVals, so that every value the        *)
(* program computes from them is a LogVal.                                 *)
(*                                                                         *)
(* Networks.  Keras' encoder and decoder are deterministic functions of    *)
(* the weights and their input.  The model keeps that, with a network of   *)
(* two weights: enc (the encoder, which gives z_mean and z_log_var) and    *)
(* dec (the decoder).                                                      *)
(***************************************************************************)
EXTENDS Integers, Sequences, FiniteSets, TLC

\* ------------------------------------------------------------------ bounds
MaxBatch == 2         \* batch_size is drawn from 1..MaxBatch
MaxEpochs == 4        \* epochs is drawn from 1..MaxEpochs
MaxPatience == 2      \* patience is drawn from 0..MaxPatience
MaxMissing == 1       \* at most this many keys are absent from the dictionary
MaxExtraRows == 1     \* train_tcr's csv file holds up to 10 * MaxBatch + MaxExtraRows rows
MaxSeqs == 2          \* sequences given to the importance sampler
MaxSamples == 2       \* --nsamples is drawn from 1..MaxSamples
MaxLatentDim == 2     \* latent_dim is drawn from 1..MaxLatentDim
MaxNSeqs == 4         \* generate's n_seqs is drawn from 1..MaxNSeqs
MaxLoss == 1          \* an epoch's training loss is drawn from 0..MaxLoss

\* -------------------------------------------------------- small helpers
Min(a, b) == IF a <= b THEN a ELSE b

\* math.ceil(a / b) for a >= 0, b >= 1.
Ceil(a, b) == (a + b - 1) \div b

\* s[1] + ... + s[n].
RECURSIVE SumTo(_, _)
SumTo(s, n) == IF n = 0 THEN 0 ELSE SumTo(s, n - 1) + s[n]

\* np.sum of a sequence of integers.
SumSeq(s) == SumTo(s, Len(s))

\* --------------------------------------------------------------- numbers
Primes == {2, 3, 5, 7}
ZeroLn == [p \in Primes |-> 0]

\* The multiplicity of the prime p in n >= 1.
RECURSIVE Mult(_, _)
Mult(p, n) == IF n % p = 0 THEN 1 + Mult(p, n \div p) ELSE 0

Fin(r, l, c) == [kind |-> "fin", r |-> r, l |-> l, c |-> c, terms |-> {}]
Zero == Fin(0, ZeroLn, 0)
NegInf == [kind |-> "ninf", r |-> 0, l |-> ZeroLn, c |-> 0, terms |-> {}]
PosInf == [kind |-> "pinf", r |-> 0, l |-> ZeroLn, c |-> 0, terms |-> {}]
NaN == [kind |-> "nan", r |-> 0, l |-> ZeroLn, c |-> 0, terms |-> {}]

IsFinite(a) == a.kind \in {"fin", "lse"}

\* np.log(n) of an integer n >= 0 whose prime factors are in Primes.
LnInt(n) == IF n = 0 THEN NegInf ELSE Fin(0, [p \in Primes |-> Mult(p, n)], 0)

\* The negation of a value.
LvNeg(a) ==
  CASE a.kind = "ninf" -> PosInf
    [] a.kind = "pinf" -> NegInf
    [] a.kind = "nan" -> NaN
    [] OTHER -> [a EXCEPT !.r = -a.r, !.l = [p \in Primes |-> -a.l[p]], !.c = -a.c,
                          !.terms = {<<-t[1], t[2]>> : t \in a.terms}]

\* IEEE addition: -inf + x = -inf for a finite x, -inf + inf = nan.
LvAdd(a, b) ==
  CASE a.kind = "nan" \/ b.kind = "nan" -> NaN
    [] a.kind = "ninf" -> IF b.kind = "pinf" THEN NaN ELSE NegInf
    [] a.kind = "pinf" -> IF b.kind = "ninf" THEN NaN ELSE PosInf
    [] b.kind = "ninf" -> NegInf
    [] b.kind = "pinf" -> PosInf
    [] OTHER -> [kind |-> IF a.kind = "lse" \/ b.kind = "lse" THEN "lse" ELSE "fin",
                 r |-> a.r + b.r, l |-> [p \in Primes |-> a.l[p] + b.l[p]],
                 c |-> a.c + b.c, terms |-> a.terms \cup b.terms]

LvSub(a, b) == LvAdd(a, LvNeg(b))

\* s[1] + ... + s[n].
RECURSIVE LvSumTo(_, _)
LvSumTo(s, n) == IF n = 0 THEN Zero ELSE LvAdd(LvSumTo(s, n - 1), s[n])

\* np.sum of a sequence of values.
LvSum(s) == LvSumTo(s, Len(s))

\* n * a for an integer n >= 0.
RECURSIVE LvTimes(_, _)
LvTimes(n, a) == IF n = 0 THEN Zero ELSE LvAdd(a, LvTimes(n - 1, a))

\* scipy.special.logsumexp(a) of the values of the sequence s, each finite or
\* -inf: ln(sum_i exp(s[i])).  Entries of -inf add exp(-inf) = 0 to the sum.
\* When the m finite entries are all the same value L the sum is m * exp(L)
\* and the result L + ln(m); otherwise the result is kept as the term
\* ln(sum exp(..)) over the bag of the finite entries.
LogSumExp(s) ==
  LET idx == {i \in 1..Len(s) : s[i].kind = "fin"}
      vals == {s[i] : i \in idx}
  IN IF idx = {} THEN NegInf
     ELSE IF Cardinality(vals) = 1
          THEN LvAdd(CHOOSE x \in vals : TRUE, LnInt(Cardinality(idx)))
          ELSE [kind |-> "lse", r |-> 0, l |-> ZeroLn, c |-> 0,
                terms |-> {<<1, [x \in vals |-> Cardinality({i \in idx : s[i] = x})]>>}]

\* scipy.stats.norm.logpdf(z, mu, sd) = -(z - mu)^2 / (2 sd^2) - ln(sd) - ln(2 pi)/2
\* for integers z, mu and sd in {1, 2}; r counts eighths.
LogPdf(z, mu, sd) ==
  Fin(-((4 * (z - mu) * (z - mu)) \div (sd * sd)), [p \in Primes |-> IF p = 2 THEN -Mult(2, sd) ELSE 0], -1)

\* ----------------------------------------------------- data and networks
\* Probabilities are numerators over ProbDenom.
ProbDenom == 4

\* One-hot vectors over a vocabulary of two (n_aas = n_v_genes = n_j_genes = 2),
\* and the malformed all-zero vector.
OneHots == {<<1, 0>>, <<0, 1>>}
ZeroVec == <<0, 0>>

\* A sequence record: a CDR3 matrix of max_cdr3_len = 1 row, a V gene vector
\* and a J gene vector.
GoodRecords == [cdr3 : {<<h>> : h \in OneHots}, v : OneHots, j : OneHots]
BadRecords ==
  {[cdr3 |-> <<ZeroVec>>, v |-> <<1, 0>>, j |-> <<0, 1>>],
   [cdr3 |-> <<<<0, 1>>>>, v |-> ZeroVec, j |-> <<1, 0>>],
   [cdr3 |-> <<<<1, 0>>>>, v |-> <<0, 1>>, j |-> ZeroVec]}
IsMalformed(x) == x.v = ZeroVec \/ x.j = ZeroVec \/ \E k \in 1..Len(x.cdr3) : x.cdr3[k] = ZeroVec

\* The weights of the model: enc scales the encoder's two output layers, dec
\* scales the decoder's logit.
Weights == [enc : 0..1, dec : 0..1]

\* The index (from 0) of the hot entry of a one-hot vector; 0 for the zero vector.
Hot(vec) == SumSeq([i \in 1..Len(vec) |-> (i - 1) * vec[i]])

\* 2^n.
RECURSIVE Pow2(_)
Pow2(n) == IF n = 0 THEN 1 ELSE 2 * Pow2(n - 1)

\* self.encoder.predict: (z_mean, z_log_var) of one record, each of latent_dim
\* entries; z_log_var is given as log2 of the standard deviation.
EncoderPredict(w, x, latent_dim) ==
  [z_mean |-> [k \in 1..latent_dim |-> w.enc * (Hot(x.v) + Hot(x.cdr3[1]))],
   z_log_sd |-> [k \in 1..latent_dim |-> w.enc * Hot(x.j)]]

\* TCRVAE.encode: z_sd = np.sqrt(np.exp(z_log_var)).
Encode(w, x, latent_dim) ==
  LET e == EncoderPredict(w, x, latent_dim)
  IN [z_mean |-> e.z_mean, z_sd |-> [k \in 1..latent_dim |-> Pow2(e.z_log_sd[k])]]

\* A softmax over two categories with the given logit, as numerators over
\* ProbDenom: every entry is positive and the entries sum to ProbDenom.
Softmax2(logit) == IF logit > 0 THEN <<1, 3>> ELSE IF logit < 0 THEN <<3, 1>> ELSE <<2, 2>>

\* TCRVAE.decode / self.decoder.predict of one latent vector z.
Decode(w, z) ==
  LET logit == w.dec * SumSeq(z)
  IN [cdr3 |-> <<Softmax2(logit)>>, v |-> Softmax2(-logit), j |-> Softmax2(logit)]

\* np.sum(probs * obs) of two vectors, a numerator over ProbDenom.
Dot(probs, obs) == SumSeq([i \in 1..Len(probs) |-> probs[i] * obs[i]])

\* LogDot with the sum clipped away from zero before the log: log(0) never happens.
LogDotClipped(probs, obs) ==
  IF Dot(probs, obs) = 0 THEN Zero ELSE LvSub(LnInt(Dot(probs, obs)), LnInt(ProbDenom))

\* np.log(np.sum(probs * obs)) of two vectors.
LogDot(probs, obs) == LvSub(LnInt(Dot(probs, obs)), LnInt(ProbDenom))

\* logprob_of_obs_vect(probs, obs): np.sum(np.log(np.sum(probs * obs, axis=1))).
logprob_of_obs_vect(probs, obs) == LvSum([k \in 1..Len(probs) |-> LogDot(probs[k], obs[k])])

\* ------------------------------------------------------------------ noise
\* The values one entry of a standard normal draw takes in the model.
EpsVals == {0, 1}

\* Noise tensors of n rows and d columns: all of them with the columns of a
\* row equal, and the constant ones.
NoiseRows(n, d) == {[i \in 1..n |-> [k \in 1..d |-> f[i]]] : f \in [1..n -> EpsVals]}
NoiseConst(n, d) == {[i \in 1..n |-> [k \in 1..d |-> e]] : e \in EpsVals}

\* ------------------------------------------- log_p_of_x_importance_sample
\* z_sample = stats.norm.rvs(z_mean, z_sd): the location-scale draw
\* z_mean + z_sd * eps of one row.
Rvs(z_mean, z_sd, eps) == [k \in 1..Len(z_mean) |-> z_mean[k] + z_sd[k] * eps[k]]

\* log_p_x_given_z of one observation x and the decoded probabilities probs.
LogPXGivenZ(probs, x) ==
  LvAdd(LvAdd(logprob_of_obs_vect(probs.cdr3, x.cdr3), LogDot(probs.v, x.v)), LogDot(probs.j, x.j))

\* np.sum(stats.norm.logpdf(z, mu, sd)) over the latent dimensions.
SumLogPdf(z, mu, sd) == LvSum([k \in 1..Len(z) |-> LogPdf(z[k], mu[k], sd[k])])

\* LogImpWeight with the two log densities added.
LogImpWeightSum(z, z_mean, z_sd) ==
  LET log_p_z == SumLogPdf(z, [k \in 1..Len(z) |-> 0], [k \in 1..Len(z) |-> 1])
      log_q_z_given_x == SumLogPdf(z, z_mean, z_sd)
  IN LvAdd(log_p_z, log_q_z_given_x)

\* log_imp_weight = log_p_z - log_q_z_given_x.
LogImpWeight(z, z_mean, z_sd) ==
  LET log_p_z == SumLogPdf(z, [k \in 1..Len(z) |-> 0], [k \in 1..Len(z) |-> 1])
      log_q_z_given_x == SumLogPdf(z, z_mean, z_sd)
  IN LvSub(log_p_z, log_q_z_given_x)

\* TCRVAE.log_p_of_x_importance_sample(x_df, out_ps): the values stored in
\* out_ps, one for each row of x_df, with the noise of stats.norm.rvs given.
log_p_of_x_importance_sample(w, x_df, noise, latent_dim) ==
  LET n == Len(x_df)
      enc == [i \in 1..n |-> Encode(w, x_df[i], latent_dim)]
      z_sample == [i \in 1..n |-> Rvs(enc[i].z_mean, enc[i].z_sd, noise[i])]
      probs == [i \in 1..n |-> Decode(w, z_sample[i])]
  IN [i \in 1..n |->
        LvAdd(LogPXGivenZ(probs[i], x_df[i]),
              LogImpWeight(z_sample[i], enc[i].z_mean, enc[i].z_sd))]

\* ImportanceAvg without the division by nsamples.
ImportanceAvgSum(log_p_x, nsamples, n) ==
  [j \in 1..n |-> LogSumExp([i \in 1..nsamples |-> log_p_x[i][j]])]

\* importance: avg = special.logsumexp(log_p_x, axis=0) - np.log(nsamples) of
\* the nsamples x len(df_x) matrix log_p_x, one value for each column.
ImportanceAvg(log_p_x, nsamples, n) ==
  [j \in 1..n |-> LvSub(LogSumExp([i \in 1..nsamples |-> log_p_x[i][j]]), LnInt(nsamples))]

\* ------------------------------------------------------------ vae.evaluate
\* categorical_crossentropy(target, probs) = -sum(target * log(probs)).
Xent(target, probs) ==
  LvSum([i \in 1..Len(target) |-> LvTimes(target[i], LvSub(LnInt(ProbDenom), LnInt(probs[i])))])

\* -0.5 * K.sum(1 + z_log_var - K.square(z_mean) - K.exp(z_log_var)) of one row;
\* z_log_var = 2 ln(sd), r counts eighths.
KlLoss(z_mean, z_log_sd) ==
  LvSum([k \in 1..Len(z_mean) |->
           Fin(4 * (z_mean[k] * z_mean[k] + Pow2(2 * z_log_sd[k]) - 1),
               [p \in Primes |-> IF p = 2 THEN -z_log_sd[k] ELSE 0], 0)])

\* The reparameterization_trick layer: z_mean + K.exp(z_log_var / 2) * epsilon.
sampling(z_mean, z_log_sd, epsilon) ==
  [k \in 1..Len(z_mean) |-> z_mean[k] + Pow2(z_log_sd[k]) * epsilon[k]]

\* The losses of the full graph on one row x with the noise eps of the
\* sampling layer: the cross-entropy of each output and the KL term of vae_loss.
VaeRow(w, x, eps, latent_dim) ==
  LET enc == EncoderPredict(w, x, latent_dim)
      o == Decode(w, sampling(enc.z_mean, enc.z_log_sd, eps))
  IN [CDR_prob_out |-> LvSum([k \in 1..Len(x.cdr3) |-> Xent(x.cdr3[k], o.cdr3[k])]),
      Vgene_prob_out |-> Xent(x.v, o.v),
      Jgene_prob_out |-> Xent(x.j, o.j),
      kl |-> KlLoss(enc.z_mean, enc.z_log_sd)]

AddLosses(a, b) ==
  [CDR_prob_out |-> LvAdd(a.CDR_prob_out, b.CDR_prob_out),
   Vgene_prob_out |-> LvAdd(a.Vgene_prob_out, b.Vgene_prob_out),
   Jgene_prob_out |-> LvAdd(a.Jgene_prob_out, b.Jgene_prob_out),
   kl |-> LvAdd(a.kl, b.kl)]

RECURSIVE VaeSumTo(_, _, _, _, _)
VaeSumTo(w, data, noise, latent_dim, n) ==
  IF n = 0 THEN [CDR_prob_out |-> Zero, Vgene_prob_out |-> Zero, Jgene_prob_out |-> Zero, kl |-> Zero]
  ELSE AddLosses(VaeSumTo(w, data, noise, latent_dim, n - 1), VaeRow(w, data[n], noise[n], latent_dim))

\* self.vae.evaluate(x=data, y=data): the losses of the full graph over the
\* rows of data, with the noise the sampling layer drew.  The cross-entropies
\* and the KL term are kept as their sums over the rows: the scalars Keras
\* reports are fixed increasing functions of them for data of one length.
VaeEvaluate(w, data, noise, latent_dim) == VaeSumTo(w, data, noise, latent_dim, Len(data))

\* ---------------------------------------------------------------- get_data
\* A csv file of n rows is the sequence 1..n of its row numbers;
\* conversion.unpadded_tcrbs_to_onehot turns row number i into a record.
Csv(n) == [i \in 1..n |-> i]
OnehotOfRow(i) ==
  [cdr3 |-> <<IF i % 2 = 1 THEN <<1, 0>> ELSE <<0, 1>>>>,
   v |-> IF (i \div 2) % 2 = 0 THEN <<1, 0>> ELSE <<0, 1>>,
   j |-> IF (i \div 4) % 2 = 0 THEN <<1, 0>> ELSE <<0, 1>>]
unpadded_tcrbs_to_onehot(sub_df) == [i \in 1..Len(sub_df) |-> OnehotOfRow(sub_df[i])]

\* df[:n]: the first n rows, all of them when n exceeds the length.
Take(df, n) == SubSeq(df, 1, Min(n, Len(df)))

\* get_data asserting that the length is a multiple of the chunk size.
get_data_strict(df, data_chunk_size) ==
  IF data_chunk_size = 0
  THEN [err |-> "none", rows |-> df]
  ELSE IF ~(Len(df) % data_chunk_size = 0 /\ Len(df) >= data_chunk_size)
       THEN [err |-> "AssertionError", rows |-> <<>>]
       ELSE [err |-> "none", rows |-> df]

\* get_data keeping one chunk: df[:data_chunk_size].
get_data_one_chunk(df, data_chunk_size) ==
  IF data_chunk_size = 0
  THEN [err |-> "none", rows |-> df]
  ELSE IF ~(Len(df) >= data_chunk_size)
       THEN [err |-> "AssertionError", rows |-> <<>>]
       ELSE [err |-> "none", rows |-> Take(df, data_chunk_size)]

\* TCRVAE.get_data(fname, data_chunk_size) on a file of rows df.
get_data(df, data_chunk_size) ==
  IF data_chunk_size = 0
  THEN [err |-> "none", rows |-> df]
  ELSE IF ~(Len(df) >= data_chunk_size)
       THEN [err |-> "AssertionError", rows |-> <<>>]
       ELSE [err |-> "none", rows |-> Take(df, Len(df) - (Len(df) % data_chunk_size))]

\* ---------------------------------------------------------------- generate
\* n_actual rounded down: batch_size * (n_seqs // batch_size).
NActualFloor(n_seqs, batch_size) == batch_size * (n_seqs \div batch_size)

\* n_actual = batch_size * math.ceil(n_seqs / batch_size).
NActual(n_seqs, batch_size) == batch_size * Ceil(n_seqs, batch_size)

\* conversion.onehot_to_tcrbs of one decoded row: the most probable entry of
\* each channel (0 or 1, the first on a tie).
ArgMax(probs) == IF probs[2] > probs[1] THEN 1 ELSE 0
onehot_to_tcrb(p) == [amino_acid |-> <<ArgMax(p.cdr3[1])>>, v_gene |-> ArgMax(p.v), j_gene |-> ArgMax(p.j)]

\* TCRVAE.generate(n_seqs), with the draw z_sample of n_actual rows given.
generate(w, n_seqs, z_sample) ==
  LET decoded == [i \in 1..Len(z_sample) |-> Decode(w, z_sample[i])]
  IN [i \in 1..Len(Take(decoded, n_seqs)) |-> onehot_to_tcrb(Take(decoded, n_seqs)[i])]

\* --------------------------------------------------------- hyperparameters
\* The twelve fields of TCRVAE.default_params.
Keys ==
  {"latent_dim", "dense_nodes", "aa_embedding_dim", "v_gene_embedding_dim",
   "j_gene_embedding_dim", "max_cdr3_len", "n_aas", "n_v_genes", "n_j_genes",
   "batch_size", "epochs", "patience"}

\* The fields encoder_decoder_vae reads, in the order of their first read:
\* building the layers, calling the sampling layer, compiling with vae_loss.
ConstructionReads ==
  <<"max_cdr3_len", "n_aas", "n_v_genes", "n_j_genes", "aa_embedding_dim",
    "v_gene_embedding_dim", "j_gene_embedding_dim", "dense_nodes", "latent_dim",
    "batch_size">>

\* The fields TCRVAE.fit reads, in the order of their first read.
FitReads == <<"patience", "epochs", "batch_size">>

\* params[k] for each k of reads in turn: the first k that is not a key of
\* the dictionary raises KeyError(k); "none" when every read succeeds.
RECURSIVE FirstMissing(_, _)
FirstMissing(reads, keys) ==
  IF reads = <<>> THEN "none"
  ELSE IF Head(reads) \notin keys THEN Head(reads)
       ELSE FirstMissing(Tail(reads), keys)

\* A constructor that reads all twelve fields.
ConstructErrorAllKeys(p) == FirstMissing(ConstructionReads \o <<"epochs", "patience">>, p.keys)

\* TCRVAE.__init__(params): encoder_decoder_vae(params) runs first, and no
\* object exists unless it returns.
ConstructError(p) == FirstMissing(ConstructionReads, p.keys)

\* The reads of TCRVAE.fit before training starts.
FitError(p) == FirstMissing(FitReads, p.keys)

FullParams(b, e, pt, l) ==
  [keys |-> Keys, batch_size |-> b, epochs |-> e, patience |-> pt, latent_dim |-> l]

\* The hyperparameter dictionaries of the model: complete ones, and ones
\* with up to MaxMissing fields left out.
ParamSets ==
  {FullParams(b, 1, 1, 1) : b \in 1..MaxBatch}
  \cup {FullParams(1, e, pt, 1) : e \in 1..MaxEpochs, pt \in 0..MaxPatience}
  \cup {FullParams(1, 1, 1, l) : l \in 1..MaxLatentDim}
  \cup {[FullParams(1, 1, 1, 1) EXCEPT !.keys = Keys \ m] :
          m \in {s \in SUBSET Keys : Cardinality(s) \in 1..MaxMissing}}

\* vae.save_weights(fname) and vae.load_weights(fname): the file holds the
\* weights; loading replaces the model's weights by the file's.
SaveWeights(w) == w

\* A load_weights that leaves the model's weights as they are.
LoadWeightsKeepsCurrent(file, current) == current

LoadWeights(file, current) == file

\* ------------------------------------------------------- EarlyStopping
\* best starts at np.Inf: above every loss.
Inf == MaxLoss + 1

\* EarlyStopping(monitor='val_loss').
MonitorVal(logs) == logs.val_loss

\* The quantity EarlyStopping(monitor='loss') reads from an epoch's logs:
\* the training loss, not the validation loss.
Monitor(logs) == logs.loss

\* EarlyStopping(monitor='loss', patience).on_epoch_end(epoch, logs):
\* monitor_op is np.less and min_delta 0.  cb = [wait, best, stop_training].
EarlyStoppingEpochEnd(cb, logs, patience) ==
  LET current == Monitor(logs)
  IN IF current < cb.best
     THEN [cb EXCEPT !.best = current, !.wait = 0]
     ELSE [cb EXCEPT !.wait = cb.wait + 1,
                     !.stop_training = (cb.wait + 1 >= patience)]

\* keras' Model.fit with validation_split vs (in tenths): the first
\* int(len * (1 - vs/10)) rows train, the rest validate.
SplitAt(len, vs) == (len * (10 - vs)) \div 10

\* ------------------------------------------------------------------ state
VARIABLES
  params,    \* the hyperparameter dictionary (params_json)
  cmd,       \* what runs: "none", "session" (facade calls) or a cli command
  pc,        \* "ready", "fit" (inside vae.fit), "sampling" (importance's loop), "done"
  built,     \* whether the TCRVAE object v exists
  weights,   \* v's weights (encoder, decoder and vae share the layers)
  data,      \* the dataframe in hand (train_data, df_x, the last get_data)
  op,        \* the operation called last
  err,       \* the exception it raised, or "none"
  out,       \* what it returned (NoOut while it runs)
  fit,       \* vae.fit's loop: epochs run, the callback's state, the loss history
  imp        \* importance's loop: nsamples, rows of log_p_x filled so far

vars == <<params, cmd, pc, built, weights, data, op, err, out, fit, imp>>

NoWeights == [enc |-> 0, dec |-> 0]
\* vae.fit before its first epoch: EarlyStopping.on_train_begin sets wait = 0
\* and best = np.Inf.
NoFit == [epoch |-> 0, wait |-> 0, best |-> Inf, stop_training |-> FALSE, hist |-> <<>>, vs |-> 0]
NoImp == [nsamples |-> 0, log_p_x |-> <<>>, noise |-> <<>>]
NoOut == [n |-> 0]

Init ==
  /\ params \in ParamSets
  /\ cmd = "none"
  /\ pc = "ready"
  /\ built = FALSE
  /\ weights = NoWeights
  /\ data = <<>>
  /\ op = "init"
  /\ err = "none"
  /\ out = NoOut
  /\ fit = NoFit
  /\ imp = NoImp

\* ------------------------------------------------------------ the facade
\* The rows of the csv files a session reads, and the chunk sizes it asks for.
MaxRows == MaxBatch + 1
Chunks == 0..(MaxBatch + 1)

Ready == cmd = "session" /\ pc = "ready" /\ built

\* Operation `name` was called and returned `o` or raised `e`.
Returns(name, e, o) == op' = name /\ err' = e /\ out' = o

\* Operation `name` was called and runs.
Runs(name) == Returns(name, "none", NoOut)

\* v = TCRVAE.of_json_file(params_json) (also TCRVAE(params)): a new model
\* with freshly initialized weights, or KeyError and no object.
Construct ==
  /\ cmd = "none"
  /\ cmd' = "session"
  /\ IF ConstructError(params) # "none"
     THEN /\ Returns("construct", "KeyError", [key |-> ConstructError(params)])
          /\ pc' = "done"
          /\ UNCHANGED <<built, weights>>
     ELSE /\ Returns("construct", "none", NoOut)
          /\ built' = TRUE
          /\ weights' \in Weights
          /\ pc' = "ready"
  /\ UNCHANGED <<params, data, fit, imp>>

\* v = TCRVAE.of_directory(path): of_json_file, then load_weights of the
\* directory's best_weights.h5.
OfDirectory ==
  /\ cmd = "none"
  /\ cmd' = "session"
  /\ IF ConstructError(params) # "none"
     THEN /\ Returns("of_directory", "KeyError", [key |-> ConstructError(params)])
          /\ pc' = "done"
          /\ UNCHANGED <<built, weights>>
     ELSE /\ Returns("of_directory", "none", NoOut)
          /\ built' = TRUE
          /\ \E file \in Weights, w0 \in Weights : weights' = LoadWeights(file, w0)
          /\ pc' = "ready"
  /\ UNCHANGED <<params, data, fit, imp>>

\* v.get_data(fname, data_chunk_size) on a file of n rows.
GetData ==
  /\ Ready
  /\ \E n \in 0..MaxRows, c \in Chunks :
       LET g == get_data(Csv(n), c)
       IN /\ Returns("get_data", g.err, [len |-> n, chunk |-> c, rows |-> g.rows])
          /\ data' = IF g.err # "none" THEN data ELSE unpadded_tcrbs_to_onehot(g.rows)
  /\ UNCHANGED <<params, cmd, pc, built, weights, fit, imp>>

\* Whether keras can run the full graph over n rows: the sampling layer adds
\* noise of batch_size rows to every batch, so every batch must be whole.
WholeBatches(n, batch_size) == n > 0 /\ n % batch_size = 0

\* Whether vae.fit can run on n rows with validation_split vs (in tenths).
CanFit(n, vs, batch_size) ==
  /\ WholeBatches(SplitAt(n, vs), batch_size)
  /\ vs # 0 => WholeBatches(n - SplitAt(n, vs), batch_size)

\* v.fit(df, validation_split, log_dir) up to the start of training: the
\* EarlyStopping callback and vae.fit's arguments are built from params.
FitBegin ==
  /\ Ready
  /\ \E vs \in {0, 1} :
       /\ CanFit(Len(data), vs, params.batch_size)
       /\ IF FitError(params) # "none"
          THEN Returns("fit", "KeyError", [key |-> FitError(params)]) /\ UNCHANGED <<pc, fit>>
          ELSE Runs("fit") /\ pc' = "fit" /\ fit' = [NoFit EXCEPT !.vs = vs]
  /\ UNCHANGED <<params, cmd, built, weights, data, imp>>

\* One epoch of vae.fit: the optimizer moves the weights, the epoch's
\* training loss is logged as 'loss' and, with a validation split, the
\* validation loss as 'val_loss' (the training loss stands in without one),
\* and EarlyStopping.on_epoch_end runs.
FitEpoch ==
  /\ pc = "fit"
  /\ fit.epoch < params.epochs
  /\ ~fit.stop_training
  /\ \E w \in Weights, loss \in 0..MaxLoss, val \in 0..MaxLoss :
       LET logs == [loss |-> loss, val_loss |-> IF fit.vs = 0 THEN loss ELSE val]
           cb == EarlyStoppingEpochEnd(fit, logs, params.patience)
       IN /\ weights' = w
          /\ fit' = [cb EXCEPT !.epoch = fit.epoch + 1, !.hist = Append(fit.hist, logs.loss)]
  /\ UNCHANGED <<params, cmd, pc, built, data, op, err, out, imp>>

\* vae.fit's loop ends: every epoch ran, or the callback set stop_training.
FitOver == pc = "fit" /\ (fit.epoch >= params.epochs \/ fit.stop_training)

FitReturn ==
  /\ cmd = "session"
  /\ FitOver
  /\ Returns("fit", "none", [epochs_run |-> fit.epoch])
  /\ pc' = "ready"
  /\ fit' = NoFit
  /\ UNCHANGED <<params, cmd, built, weights, data, imp>>

\* An evaluate that takes an optimizer step.
EvaluateTrains ==
  /\ Ready
  /\ WholeBatches(Len(data), params.batch_size)
  /\ \E noise \in NoiseConst(Len(data), params.latent_dim), w \in Weights :
       /\ weights' = w
       /\ Returns("evaluate", "none",
                  [loss |-> VaeEvaluate(weights, data, noise, params.latent_dim), noise |-> noise])
  /\ UNCHANGED <<params, cmd, pc, built, data, fit, imp>>

\* v.evaluate(x_df) on whole batches.
Evaluate ==
  /\ Ready
  /\ WholeBatches(Len(data), params.batch_size)
  /\ \E noise \in NoiseConst(Len(data), params.latent_dim) :
       Returns("evaluate", "none",
               [loss |-> VaeEvaluate(weights, data, noise, params.latent_dim), noise |-> noise])
  /\ UNCHANGED <<params, cmd, pc, built, weights, data, fit, imp>>

\* v.encode(x_df).
EncodeOp ==
  /\ Ready
  /\ Len(data) > 0
  /\ Returns("encode", "none", [i \in 1..Len(data) |-> Encode(weights, data[i], params.latent_dim)])
  /\ UNCHANGED <<params, cmd, pc, built, weights, data, fit, imp>>

\* v.decode(z) of one latent vector.
DecodeOp ==
  /\ Ready
  /\ \E z \in NoiseConst(1, params.latent_dim) :
       Returns("decode", "none", [z |-> z[1], probs |-> Decode(weights, z[1])])
  /\ UNCHANGED <<params, cmd, pc, built, weights, data, fit, imp>>

\* v.generate(n_seqs).
GenerateOp ==
  /\ Ready
  /\ \E n_seqs \in 1..MaxNSeqs :
       \E z_sample \in NoiseConst(NActual(n_seqs, params.batch_size), params.latent_dim) :
         Returns("generate", "none",
                 [n_seqs |-> n_seqs, z_sample |-> z_sample,
                  records |-> generate(weights, n_seqs, z_sample)])
  /\ UNCHANGED <<params, cmd, pc, built, weights, data, fit, imp>>

\* v.log_p_of_x_importance_sample(x_df, out_ps) with an out_ps of m slots.
ImportanceSampleOp ==
  /\ Ready
  /\ Len(data) \in 1..MaxSeqs
  /\ \E m \in {Len(data), Len(data) + 1} :
       IF ~(Len(data) = m)
       THEN Returns("importance_sample", "AssertionError", NoOut)
       ELSE \E noise \in NoiseRows(Len(data), params.latent_dim) :
              Returns("importance_sample", "none",
                      [out_ps |-> log_p_of_x_importance_sample(weights, data, noise, params.latent_dim),
                       noise |-> noise])
  /\ UNCHANGED <<params, cmd, pc, built, weights, data, fit, imp>>

\* ------------------------------------------------------- the cli commands
\* The rows of the csv file given to train_tcr.
MaxTrainRows == 10 * MaxBatch + MaxExtraRows

\* A command ends with an exception of operation `name`.
Dies(name, e, o) == Returns(name, e, o) /\ pc' = "done"

\* train_tcr asking get_data for a multiple of batch_size, as loss does.
TrainTcrGetDataByBatch ==
  /\ cmd = "none"
  /\ cmd' = "train_tcr"
  /\ \E n \in 0..MaxTrainRows, w0 \in Weights :
       IF ConstructError(params) # "none"
       THEN Dies("construct", "KeyError", [key |-> ConstructError(params)])
            /\ UNCHANGED <<built, weights, data>>
       ELSE LET min_data_size == params.batch_size
                g == get_data(Csv(n), min_data_size)
            IN /\ built' = TRUE
               /\ weights' = w0
               /\ Returns("get_data", g.err, [len |-> n, chunk |-> min_data_size, rows |-> g.rows])
               /\ data' = unpadded_tcrbs_to_onehot(g.rows)
               /\ pc' = IF g.err # "none" THEN "done" ELSE "loaded"
  /\ UNCHANGED <<params, fit, imp>>

\* train_tcr up to v.fit: of_json_file, and get_data with
\* min_data_size = validation_split_multiplier * batch_size.
TrainTcrGetData ==
  /\ cmd = "none"
  /\ cmd' = "train_tcr"
  /\ \E n \in 0..MaxTrainRows, w0 \in Weights :
       IF ConstructError(params) # "none"
       THEN Dies("construct", "KeyError", [key |-> ConstructError(params)])
            /\ UNCHANGED <<built, weights, data>>
       ELSE LET min_data_size == 10 * params.batch_size
                g == get_data(Csv(n), min_data_size)
            IN /\ built' = TRUE
               /\ weights' = w0
               /\ Returns("get_data", g.err, [len |-> n, chunk |-> min_data_size, rows |-> g.rows])
               /\ data' = unpadded_tcrbs_to_onehot(g.rows)
               /\ pc' = IF g.err # "none" THEN "done" ELSE "loaded"
  /\ UNCHANGED <<params, fit, imp>>

\* train_tcr's v.fit(train_data, validation_split, log_dir) up to the start
\* of training, with validation_split = 0.1.
TrainTcrFit ==
  /\ cmd = "train_tcr"
  /\ pc = "loaded"
  /\ IF FitError(params) # "none"
     THEN Dies("fit", "KeyError", [key |-> FitError(params)]) /\ UNCHANGED fit
     ELSE Runs("fit") /\ pc' = "fit" /\ fit' = [NoFit EXCEPT !.vs = 1]
  /\ UNCHANGED <<params, cmd, built, weights, data, imp>>

\* train_tcr after v.fit returned: save_weights, a second model vp of the
\* same parameters, load_weights into it, and the two evaluations.
TrainTcrFinish ==
  /\ cmd = "train_tcr"
  /\ FitOver
  /\ \E vp0 \in Weights :
     \E noise_v \in NoiseConst(Len(data), params.latent_dim) :
     \E noise_vp \in NoiseConst(Len(data), params.latent_dim) :
       LET file == SaveWeights(weights)
           vp == LoadWeights(file, vp0)
       IN Returns("train_tcr", "none",
                  [epochs_run |-> fit.epoch,
                   file |-> file,
                   vp_weights |-> vp,
                   train |-> VaeEvaluate(weights, data, noise_v, params.latent_dim),
                   vp_train |-> VaeEvaluate(vp, data, noise_vp, params.latent_dim),
                   noise_v |-> noise_v,
                   noise_vp |-> noise_vp])
  /\ pc' = "done"
  /\ fit' = NoFit
  /\ UNCHANGED <<params, cmd, built, weights, data, imp>>

\* loss: of_json_file, load_weights, and evaluate of get_data(csv, batch_size)
\* for the train file and then the test file.
LossCmd ==
  /\ cmd = "none"
  /\ cmd' = "loss"
  /\ pc' = "done"
  /\ \E n_train \in 0..MaxRows, n_test \in 0..MaxRows, file \in Weights, w0 \in Weights :
       IF ConstructError(params) # "none"
       THEN Returns("construct", "KeyError", [key |-> ConstructError(params)])
            /\ UNCHANGED <<built, weights, data>>
       ELSE LET w == LoadWeights(file, w0)
                g1 == get_data(Csv(n_train), params.batch_size)
                g2 == get_data(Csv(n_test), params.batch_size)
                d1 == unpadded_tcrbs_to_onehot(g1.rows)
                d2 == unpadded_tcrbs_to_onehot(g2.rows)
            IN /\ built' = TRUE
               /\ weights' = w
               /\ IF g1.err # "none"
                  THEN Returns("get_data", g1.err, [len |-> n_train, chunk |-> params.batch_size, rows |-> <<>>])
                       /\ UNCHANGED data
                  ELSE IF g2.err # "none"
                  THEN Returns("get_data", g2.err, [len |-> n_test, chunk |-> params.batch_size, rows |-> <<>>])
                       /\ data' = d1
                  ELSE /\ data' = d2
                       /\ \E e1 \in NoiseConst(Len(d1), params.latent_dim) :
                          \E e2 \in NoiseConst(Len(d2), params.latent_dim) :
                            Returns("loss", "none",
                                    [n_train |-> n_train, n_test |-> n_test,
                                     train_rows |-> Len(d1), test_rows |-> Len(d2),
                                     train |-> VaeEvaluate(w, d1, e1, params.latent_dim),
                                     test |-> VaeEvaluate(w, d2, e2, params.latent_dim)])
  /\ UNCHANGED <<params, fit, imp>>

\* generate: of_json_file, load_weights, v.generate(nseqs).
GenerateCmd ==
  /\ cmd = "none"
  /\ cmd' = "generate"
  /\ pc' = "done"
  /\ \E n_seqs \in 1..MaxNSeqs, file \in Weights, w0 \in Weights :
       IF ConstructError(params) # "none"
       THEN Returns("construct", "KeyError", [key |-> ConstructError(params)])
            /\ UNCHANGED <<built, weights>>
       ELSE LET w == LoadWeights(file, w0)
            IN /\ built' = TRUE
               /\ weights' = w
               /\ \E z_sample \in NoiseConst(NActual(n_seqs, params.batch_size), params.latent_dim) :
                    Returns("generate", "none",
                            [n_seqs |-> n_seqs, z_sample |-> z_sample,
                             records |-> generate(w, n_seqs, z_sample)])
  /\ UNCHANGED <<params, data, fit, imp>>

\* importance up to its loop: of_json_file, load_weights, get_data of the
\* whole file, --limit-input-to (0 for None), and log_p_x = np.zeros.
ImportanceBegin ==
  /\ cmd = "none"
  /\ cmd' = "importance"
  /\ \E n \in 0..MaxSeqs, limit_input_to \in 0..MaxSeqs, nsamples \in 1..MaxSamples,
        file \in Weights, w0 \in Weights :
       IF ConstructError(params) # "none"
       THEN Dies("construct", "KeyError", [key |-> ConstructError(params)])
            /\ UNCHANGED <<built, weights, data, imp>>
       ELSE LET g == get_data(Csv(n), 0)
                df_x == IF limit_input_to = 0 THEN g.rows ELSE Take(g.rows, limit_input_to)
            IN /\ built' = TRUE
               /\ weights' = LoadWeights(file, w0)
               /\ data' = unpadded_tcrbs_to_onehot(df_x)
               /\ imp' = [nsamples |-> nsamples, log_p_x |-> <<>>, noise |-> <<>>]
               /\ Runs("importance")
               /\ pc' = "sampling"
  /\ UNCHANGED <<params, fit>>

\* One turn of importance's loop: v.log_p_of_x_importance_sample(df_x, log_p_x[i]).
ImportanceStep ==
  /\ pc = "sampling"
  /\ Len(imp.log_p_x) < imp.nsamples
  /\ \E noise \in NoiseRows(Len(data), params.latent_dim) :
       imp' = [imp EXCEPT
                 !.log_p_x = Append(@, log_p_of_x_importance_sample(weights, data, noise, params.latent_dim)),
                 !.noise = Append(@, noise)]
  /\ UNCHANGED <<params, cmd, pc, built, weights, data, op, err, out, fit>>

\* After the loop: avg, written to out_csv one estimate per line.
ImportanceEnd ==
  /\ pc = "sampling"
  /\ Len(imp.log_p_x) = imp.nsamples
  /\ Returns("importance", "none", [avg |-> ImportanceAvg(imp.log_p_x, imp.nsamples, Len(data))])
  /\ pc' = "done"
  /\ UNCHANGED <<params, cmd, built, weights, data, fit, imp>>

Next ==
  \/ Construct \/ OfDirectory \/ GetData \/ FitBegin \/ FitEpoch \/ FitReturn
  \/ Evaluate \/ EncodeOp \/ DecodeOp \/ GenerateOp \/ ImportanceSampleOp
  \/ TrainTcrGetData \/ TrainTcrFit \/ TrainTcrFinish \/ LossCmd \/ GenerateCmd
  \/ ImportanceBegin \/ ImportanceStep \/ ImportanceEnd

Spec == Init /\ [][Next]_vars

\* ------------------------------------------------------ fit on its own
\* v.fit called again and again on a model in hand, with data of whole
\* batches.  Keras runs the epochs one after the other and returns when the
\* loop is over: the loop cannot stall.
InitFit ==
  /\ params \in {q \in ParamSets : q.keys = Keys}
  /\ cmd = "session"
  /\ pc = "ready"
  /\ built = TRUE
  /\ weights \in Weights
  /\ data \in {unpadded_tcrbs_to_onehot(Csv(n)) : n \in 1..MaxRows}
  /\ op = "construct"
  /\ err = "none"
  /\ out = NoOut
  /\ fit = NoFit
  /\ imp = NoImp

NextFit == FitBegin \/ FitEpoch \/ FitReturn

SpecFit == InitFit /\ [][NextFit]_vars /\ WF_vars(FitEpoch) /\ WF_vars(FitReturn)

\* ------------------------------------ the importance sampler on any input
\* log_p_of_x_importance_sample takes any one-hot dataframe.  SpecIS runs
\* importance's loop over it on a dataframe handed to the model directly,
\* whose rows may hold an all-zero vector.
ISRecords ==
  {[cdr3 |-> <<<<1, 0>>>>, v |-> <<1, 0>>, j |-> <<1, 0>>],
   [cdr3 |-> <<<<0, 1>>>>, v |-> <<1, 0>>, j |-> <<0, 1>>]} \cup BadRecords

InitIS ==
  /\ params \in {FullParams(1, 1, 1, l) : l \in 1..MaxLatentDim}
  /\ cmd = "session"
  /\ pc = "sampling"
  /\ built = TRUE
  /\ weights \in Weights
  /\ data \in UNION {[1..n -> ISRecords] : n \in 1..MaxSeqs}
  /\ op = "importance"
  /\ err = "none"
  /\ out = NoOut
  /\ fit = NoFit
  /\ imp \in {[nsamples |-> k, log_p_x |-> <<>>, noise |-> <<>>] : k \in 1..MaxSamples}

NextIS == ImportanceStep \/ ImportanceEnd

SpecIS == InitIS /\ [][NextIS]_vars

\* ------------------------------------------------------------------ claims
\* C1: for every n >= 1 and batch_size >= 1, generate(n) returns exactly n
\* records: the latent draw has batch_size * ceil(n / batch_size) rows (a
\* multiple of batch_size, at least n and less than n + batch_size), and the
\* records are the first n decoded rows, channel by channel.
C1_GenerateReturnsN ==
  (op = "generate" /\ err = "none") =>
    /\ Len(out.records) = out.n_seqs
    /\ Len(out.z_sample) % params.batch_size = 0
    /\ Len(out.z_sample) >= out.n_seqs
    /\ Len(out.z_sample) < out.n_seqs + params.batch_size
    /\ \A i \in 1..out.n_seqs :
         out.records[i] = onehot_to_tcrb(Decode(weights, out.z_sample[i]))

C1_Witness ==
  /\ op = "generate"
  /\ params.batch_size = 2
  /\ out.n_seqs = 3
  /\ Len(out.z_sample) = 4
  /\ Len(out.records) = 3

\* C2: the weights of an existing model change only inside fit; evaluate,
\* encode, decode, generate and log_p_of_x_importance_sample return with the
\* weights they were called with.  (Weights are also set when a model object
\* is created: the constructor and load_weights of a command or of_directory.)
C2_WeightsChangedOnlyByFit ==
  [][/\ (weights' # weights) => (pc = "fit" \/ cmd = "none")
     /\ (cmd = "session" /\ op' \in {"evaluate", "encode", "decode", "generate", "importance_sample"})
          => weights' = weights]_vars

C2_Witness ==
  /\ cmd = "session"
  /\ op = "evaluate"
  /\ err = "none"
  /\ weights = [enc |-> 1, dec |-> 1]

\* C3 as stated: when the length of the input is not a multiple of the batch
\* size an assertion fails, and evaluate never runs on data trimmed to a
\* multiple of the batch size.
C3_AssertsOnNonMultiple ==
  /\ (cmd = "loss" /\ op = "loss") =>
       /\ out.train_rows = out.n_train
       /\ out.test_rows = out.n_test
  /\ (cmd = "train_tcr" /\ op = "get_data" /\ out.len % params.batch_size # 0) =>
       err = "AssertionError"

\* C3 as amended: get_data, called by loss with batch_size and by train_tcr
\* with 10 * batch_size, fails its assertion only when the file holds fewer
\* rows than that chunk size; otherwise it trims the data to the largest
\* multiple of the chunk size without a signal, and evaluate and fit run on
\* the trimmed data.
C3_TrimsToWholeChunks ==
  /\ (cmd = "loss" /\ op = "loss") =>
       /\ err = "none"
       /\ out.n_train >= params.batch_size
       /\ out.n_test >= params.batch_size
       /\ out.train_rows = out.n_train - (out.n_train % params.batch_size)
       /\ out.test_rows = out.n_test - (out.n_test % params.batch_size)
  /\ (cmd = "loss" /\ op = "get_data") =>
       /\ err = "AssertionError"
       /\ out.len < params.batch_size
  /\ (cmd = "train_tcr" /\ op = "get_data") =>
       IF out.len < 10 * params.batch_size
       THEN err = "AssertionError" /\ pc = "done"
       ELSE /\ err = "none"
            /\ pc = "loaded"
            /\ Len(data) = out.len - (out.len % (10 * params.batch_size))
  /\ (cmd = "train_tcr" /\ pc = "fit") =>
       /\ Len(data) >= 10 * params.batch_size
       /\ Len(data) % (10 * params.batch_size) = 0

C3_Witness ==
  /\ cmd = "loss"
  /\ op = "loss"
  /\ params.batch_size = 2
  /\ out.n_train = 3
  /\ out.train_rows = 2

\* C4 as stated: a dictionary that lacks any of the twelve fields never
\* yields a TCRVAE object, and a KeyError is raised by construction only.
C4_AnyMissingFieldFailsConstruction ==
  /\ (params.keys # Keys) => ~built
  /\ (err = "KeyError") => op \in {"construct", "of_directory"}

\* C4 as amended: a dictionary that lacks one of the ten fields the network
\* is built from fails at construction with a KeyError and no object; a
\* dictionary that lacks only epochs or patience constructs the object, and
\* the KeyError is raised by fit, before any epoch runs.
C4_MissingFieldFails ==
  LET missing == Keys \ params.keys
      late == {"epochs", "patience"}
  IN /\ (missing \ late # {}) =>
          /\ ~built
          /\ weights = NoWeights
          /\ (cmd # "none") =>
               /\ pc = "done"
               /\ op \in {"construct", "of_directory"}
               /\ err = "KeyError"
               /\ out.key \in missing \ late
     /\ (missing # {} /\ missing \subseteq late /\ cmd # "none") =>
          /\ built
          /\ pc # "fit"
          /\ fit = NoFit
          /\ (op = "fit") => (err = "KeyError" /\ out.key \in missing)
     /\ (err = "KeyError") => out.key \in missing

C4_Witness ==
  /\ built
  /\ "epochs" \notin params.keys
  /\ op = "fit"
  /\ err = "KeyError"
  /\ out.key = "epochs"

C6_ZeroOneHotGivesNegInf ==
  /\ err = "none"
  /\ \A i \in 1..Len(imp.log_p_x) : \A j \in 1..Len(data) :
       /\ IsMalformed(data[j]) => imp.log_p_x[i][j] = NegInf
       /\ ~IsMalformed(data[j]) => imp.log_p_x[i][j].kind = "fin"
       /\ imp.log_p_x[i][j] =
            log_p_of_x_importance_sample(weights, <<data[j]>>, <<imp.noise[i][j]>>, params.latent_dim)[1]

C6_Witness ==
  /\ Len(data) = 2
  /\ Len(imp.log_p_x) >= 1
  /\ data[1].v = ZeroVec
  /\ ~IsMalformed(data[2])
  /\ imp.log_p_x[1][1] = NegInf
  /\ imp.log_p_x[1][2].kind = "fin"

\* C7: the estimate of a sequence is log p(x|z) + log p(z) - log q(z|x) for
\* the drawn z; when z_mean = 0 and z_sd = 1 in every latent dimension,
\* log p(z) - log q(z|x) is zero and the estimate is log p(x|z).
C7_EstimateIsLikelihoodTimesWeight ==
  \A i \in 1..Len(imp.log_p_x) : \A j \in 1..Len(data) :
    LET dims == 1..params.latent_dim
        e == Encode(weights, data[j], params.latent_dim)
        z == [k \in dims |-> e.z_mean[k] + e.z_sd[k] * imp.noise[i][j][k]]
        lpx == LogPXGivenZ(Decode(weights, z), data[j])
        lpz == LvSum([k \in dims |-> LogPdf(z[k], 0, 1)])
        lq == LvSum([k \in dims |-> LogPdf(z[k], e.z_mean[k], e.z_sd[k])])
    IN /\ imp.log_p_x[i][j] = LvSub(LvAdd(lpx, lpz), lq)
       /\ (\A k \in dims : e.z_mean[k] = 0 /\ e.z_sd[k] = 1) =>
            /\ LvSub(lpz, lq) = Zero
            /\ imp.log_p_x[i][j] = lpx

C7_Witness ==
  /\ Len(imp.log_p_x) >= 1
  /\ weights.enc = 0
  /\ ~IsMalformed(data[1])
  /\ imp.noise[1][1][1] = 1
  /\ imp.log_p_x[1][1] = LogPXGivenZ(Decode(weights, imp.noise[1][1]), data[1])

\* C8: importance writes one estimate for each input sequence, the logsumexp
\* of the sequence's nsamples estimates minus log(nsamples); when the
\* nsamples estimates of a sequence are all the same value L, it is L.
C8_AggregateIsLogMeanExp ==
  (op = "importance" /\ pc = "done") =>
    /\ err = "none"
    /\ Len(out.avg) = Len(data)
    /\ \A j \in 1..Len(data) :
         LET col == [i \in 1..imp.nsamples |-> imp.log_p_x[i][j]]
         IN /\ out.avg[j] = LvSub(LogSumExp(col), LnInt(imp.nsamples))
            /\ (\A i \in 1..imp.nsamples : col[i] = col[1]) => out.avg[j] = col[1]

C8_Witness ==
  /\ op = "importance"
  /\ pc = "done"
  /\ imp.nsamples = 2
  /\ imp.log_p_x[1][1] = imp.log_p_x[2][1]
  /\ imp.log_p_x[1][1].kind = "fin"
  /\ out.avg[1] = imp.log_p_x[1][1]

\* C9: fit terminates; it never runs more than params['epochs'] epochs; after
\* each epoch it is stopped exactly when the training loss failed to improve
\* on the best training loss so far in each of the last patience epochs (a
\* patience of 0 counts as 1), and no epoch runs after that.
C9_FitTerminatesWithEarlyStopping ==
  /\ [](pc = "fit" =>
          LET n == Len(fit.hist)
              p == IF params.patience = 0 THEN 1 ELSE params.patience
              NotImproved(k) == \E m \in 1..(k - 1) : fit.hist[m] <= fit.hist[k]
              Stops(len) == len >= p /\ \A k \in (len - p + 1)..len : NotImproved(k)
          IN /\ fit.epoch = n
             /\ n <= params.epochs
             /\ fit.stop_training <=> (n >= 1 /\ Stops(n))
             /\ \A len \in 1..(n - 1) : ~Stops(len))
  /\ (pc = "fit" ~> pc # "fit")

C9_Witness ==
  /\ pc = "fit"
  /\ params.patience = 2
  /\ params.epochs = 4
  /\ fit.epoch = 3
  /\ fit.stop_training
  /\ fit.hist = <<1, 1, 1>>

\* C10: get_data with data_chunk_size 0 returns every row; with a chunk size
\* c > 0 and at least c rows it returns the first len - (len mod c) rows, the
\* largest multiple of c not above len, which is at least c; with fewer than
\* c rows the assertion fails and no data is returned.
C10_GetDataTrims ==
  (op = "get_data") =>
    LET len == out.len
        c == out.chunk
        k == Len(out.rows)
    IN /\ (c = 0) => (err = "none" /\ out.rows = Csv(len))
       /\ (c > 0 /\ len >= c) =>
            /\ err = "none"
            /\ out.rows = SubSeq(Csv(len), 1, len - (len % c))
            /\ k % c = 0
            /\ k >= c
            /\ k <= len
            /\ k + c > len
       /\ (c > 0 /\ len < c) => (err = "AssertionError" /\ out.rows = <<>>)

C10_Witness ==
  /\ op = "get_data"
  /\ cmd = "session"
  /\ out.len = 3
  /\ out.chunk = 2
  /\ out.rows = <<1, 2>>
  /\ Len(data) = 2

\* C11: in train_tcr a file of at least 10 * batch_size rows gives fit and
\* evaluate data whose length is a positive multiple of 10 * batch_size, so
\* that with validation_split = 0.1 the training part is 9/10 of the rows,
\* the validation part 1/10, and both are positive multiples of batch_size;
\* a file of fewer rows fails get_data's assertion and fit is never called.
C11_TrainDataSplitsIntoWholeBatches ==
  LET b == params.batch_size
      n == Len(data)
      train == SplitAt(n, 1)
  IN /\ (cmd = "train_tcr" /\ op = "get_data") =>
          IF out.len >= 10 * b
          THEN err = "none" /\ pc = "loaded" /\ n > 0 /\ n <= out.len
          ELSE err = "AssertionError" /\ pc = "done" /\ fit = NoFit /\ n = 0
     /\ (cmd = "train_tcr" /\ (pc \in {"loaded", "fit"} \/ op \in {"fit", "train_tcr"})) =>
          /\ n > 0
          /\ n % (10 * b) = 0
          /\ 10 * train = 9 * n
          /\ train > 0 /\ train % b = 0
          /\ n - train > 0 /\ (n - train) % b = 0
     /\ (cmd = "train_tcr" /\ pc = "fit") => fit.vs = 1

C11_Witness ==
  /\ cmd = "train_tcr"
  /\ op = "train_tcr"
  /\ params.batch_size = 2
  /\ Len(data) = 20
  /\ out.epochs_run >= 1
  /\ SplitAt(Len(data), 1) = 18
====
